---------------------------- MODULE Spec2Model ----------------------------
(***************************************************************************)
(* DispatchAI backend (backend/app/main.py and its services): the          *)
(* ConnectionManager registry, the camera and dispatcher websocket         *)
(* handlers, and the process_buffer triage cycle, as one state machine     *)
(* under asyncio's single-threaded cooperative scheduling.  A step of the  *)
(* model is the code that runs between two suspension points (await of a   *)
(* socket receive, of a socket send, of the compressor's HTTP call).  The  *)
(* classifier and the agents call the Gemini client synchronously: they    *)
(* block the event loop, which the variable running models.                *)
(***************************************************************************)
EXTENDS Integers, Sequences, FiniteSets, TLC

(***************************************************************************)
(* Bounds of the model.                                                    *)
(***************************************************************************)
MaxTime == 2          \* the clock stops after this many ticks
MaxCycles == 2        \* process_buffer tasks created in one run
PipelineCycles == 1   \* the same, where every response of the collaborators is drawn
MaxBuffer == 2        \* fragments in one buffer
MaxFragments == 3     \* fragments appended in one run
MaxReceived == 1      \* messages one dispatcher handler handles
SessionCycles == 1    \* process_buffer tasks created where two sockets share the registry

\* Clock ticks in one second: datetime.now() is finer than the one-second
\* resolution of int(datetime.now().timestamp()).
TicksPerSecond == 2

\* BUFFER_DURATION_SECONDS = int(os.getenv("BUFFER_DURATION_SECONDS", "15")):
\* the deployment's setting, here one second.
BUFFER_DURATION_SECONDS == 1

CameraIds == {"cam1", "cam2"}
CamSockets == {"w1", "w2"}
DispSockets == {"d1", "d2", "d3"}
AgentNames == <<"fire", "ems", "police">>

(***************************************************************************)
(* Python dicts are functions whose domain is the set of keys.             *)
(***************************************************************************)
EmptyDict == [k \in {} |-> 0]

DictSet(d, k, v) == [x \in DOMAIN d \cup {k} |-> IF x = k THEN v ELSE d[x]]

DictDel(d, k) == [x \in DOMAIN d \ {k} |-> d[x]]

DictGet(d, k, default) == IF k \in DOMAIN d THEN d[k] ELSE default

\* {**a, **b}: the keys of both, b's value where both have the key.
DictMerge(a, b) ==
  [x \in DOMAIN a \cup DOMAIN b |-> IF x \in DOMAIN b THEN b[x] ELSE a[x]]

Range(s) == {s[i] : i \in DOMAIN s}

\* list.remove(x) guarded by "x in list": the first occurrence goes.
RECURSIVE ListRemove(_, _)
ListRemove(s, x) ==
  IF s = <<>> THEN <<>>
  ELSE IF Head(s) = x THEN Tail(s)
  ELSE <<Head(s)>> \o ListRemove(Tail(s), x)

\* "\n".join(texts)
RECURSIVE JoinLines(_)
JoinLines(texts) ==
  IF texts = <<>> THEN ""
  ELSE IF Len(texts) = 1 THEN texts[1]
  ELSE texts[1] \o "\n" \o JoinLines(Tail(texts))

\* not text or not text.strip(): the texts the model builds that are blank.
BlankTexts == {JoinLines([i \in 1..n |-> ""]) : n \in 0..(MaxBuffer + 1)}

VARIABLES
  camera_connections,     \* manager.camera_connections: camera id -> socket
  dispatcher_connections, \* manager.dispatcher_connections: list of sockets
  text_buffers,           \* manager.text_buffers: camera id -> list of fragments
  buffer_start_times,     \* manager.buffer_start_times: camera id -> time
  HAS_COMPRESSION,        \* the import of app.services.compression succeeded
  TOKEN_COMPANY_API_KEY,  \* the compressor's key is set
  client,                 \* the Gemini client is initialised
  now,                    \* datetime.now(), in ticks
  cam,                    \* camera_websocket handlers, one per socket
  disp,                   \* dispatcher_websocket handlers, one per socket
  cycles,                 \* process_buffer tasks, in creation order
  running,                \* the task holding the event loop in a blocking call, or 0
  inbox,                  \* what each dispatcher socket has been sent
  appended,               \* history: fragments appended to the live session of an id
  nfragments              \* history: fragments appended so far

manager == <<camera_connections, dispatcher_connections, text_buffers,
             buffer_start_times>>
config == <<HAS_COMPRESSION, TOKEN_COMPANY_API_KEY, client>>
vars == <<camera_connections, dispatcher_connections, text_buffers,
          buffer_start_times, HAS_COMPRESSION, TOKEN_COMPANY_API_KEY, client,
          now, cam, disp, cycles, running, inbox, appended, nfragments>>


(***************************************************************************)
(* Values the code builds.                                                 *)
(***************************************************************************)
\* datetime.now().isoformat()
Isoformat(t) == "T" \o ToString(t)

\* int(datetime.now().timestamp()): whole seconds
TimestampSeconds(t) == t \div TicksPerSecond

\* Mutant of WindowElapsed: the window must have been exceeded.
WindowExceeded(start, t) == t - start > BUFFER_DURATION_SECONDS * TicksPerSecond

\* (datetime.now() - start).total_seconds() >= BUFFER_DURATION_SECONDS
WindowElapsed(start, t) == t - start >= BUFFER_DURATION_SECONDS * TicksPerSecond

CameraConnectedMessage(camera_id) ==
  [type |-> "camera_connected", camera_id |-> camera_id]

\* Mutant of CameraListMessage: the list is sent empty.
CameraListEmpty(connections) == [type |-> "camera_list", cameras |-> {}]

\* "cameras": list(self.camera_connections.keys())
CameraListMessage(connections) ==
  [type |-> "camera_list", cameras |-> DOMAIN connections]

AlertMessage(report) == [type |-> "alert", data |-> report]

(***************************************************************************)
(* ConnectionManager.broadcast_to_dispatchers.  The for loop walks the     *)
(* live list by index and suspends in each send_json; idx is the number of *)
(* elements the list iterator has handed out, ws the socket of the send in *)
(* flight.  The other fields are history: start and finish are the list   *)
(* when the loop began and ended, undisturbed says that the loop found the *)
(* list as it was at each of its turns, sent holds the sockets whose send  *)
(* succeeded, removed the sockets the loop's exit pruned.                  *)
(***************************************************************************)
NoBroadcast ==
  [state |-> "none", bid |-> "", message |-> EmptyDict, idx |-> 0, ws |-> "",
   disconnected |-> <<>>, start |-> <<>>, undisturbed |-> TRUE,
   sent |-> <<>>, finish |-> <<>>, removed |-> {}]

\* for ws in self.dispatcher_connections: the iterator's next element, or
\* the end of the loop when the index has reached the list's length.
BroadcastNext(bc, conns) ==
  IF bc.idx < Len(conns)
    THEN [bc EXCEPT !.state = "sending", !.idx = @ + 1, !.ws = conns[bc.idx + 1],
                    !.undisturbed = @ /\ conns = bc.start]
    ELSE [bc EXCEPT !.state = "done", !.ws = "",
                    !.undisturbed = @ /\ conns = bc.start]

BroadcastBegin(bid, message, conns) ==
  BroadcastNext([NoBroadcast EXCEPT !.bid = bid, !.message = message,
                                    !.start = conns], conns)

\* try: await ws.send_json(message)  except: disconnected.append(ws)
BroadcastAfterSend(bc, ok) ==
  IF ok THEN [bc EXCEPT !.sent = Append(@, bc.ws)]
        ELSE [bc EXCEPT !.disconnected = Append(@, bc.ws)]

\* Mutant of DisconnectDispatcher: an absent socket costs the list its first
\* element.
DisconnectDispatcherAlways(conns, ws) ==
  IF ws \in Range(conns) THEN ListRemove(conns, ws)
  ELSE IF conns = <<>> THEN conns ELSE Tail(conns)

\* ConnectionManager.disconnect_dispatcher
DisconnectDispatcher(conns, ws) ==
  IF ws \in Range(conns) THEN ListRemove(conns, ws) ELSE conns

\* for ws in disconnected: self.disconnect_dispatcher(ws)
RECURSIVE PruneDisconnected(_, _)
PruneDisconnected(conns, disconnected) ==
  IF disconnected = <<>> THEN conns
  ELSE PruneDisconnected(DisconnectDispatcher(conns, Head(disconnected)),
                         Tail(disconnected))

\* The loop's exit: the failed sockets are pruned.
BroadcastFinish(bc, conns) ==
  [bc EXCEPT !.finish = conns,
             !.removed = Range(conns) \ Range(PruneDisconnected(conns, bc.disconnected))]

\* A send succeeds when the peer is still there.
SendSucceeds(ws) == disp[ws].alive

Deliver(boxes, ws, bid, message) ==
  [boxes EXCEPT ![ws] = Append(@, [bid |-> bid, message |-> message])]

\* A suspended broadcast resumes from its send: the outcome is recorded, and
\* the loop runs on to its next send or to its end.
BroadcastResumed(bc, conns) ==
  LET after == BroadcastAfterSend(bc, SendSucceeds(bc.ws))
      next == BroadcastNext(after, conns)
  IN IF next.state = "done" THEN BroadcastFinish(next, conns) ELSE next

\* The dispatcher list once the broadcast has run on to bc2.
ConnectionsAfter(bc2, conns) ==
  IF bc2.state = "done" THEN PruneDisconnected(conns, bc2.disconnected) ELSE conns

\* The inboxes once the send of bc has ended.
InboxAfter(bc) ==
  IF SendSucceeds(bc.ws) THEN Deliver(inbox, bc.ws, bc.bid, bc.message) ELSE inbox

(***************************************************************************)
(* services/compression.py: compress_text.  A response of the compression  *)
(* service is an exception of the HTTP client, or a status code and the    *)
(* JSON body.                                                              *)
(***************************************************************************)
CompressorResponses ==
  { [raised |-> TRUE,  status_code |-> 0,   body |-> EmptyDict],
    [raised |-> FALSE, status_code |-> 500, body |-> EmptyDict],
    [raised |-> FALSE, status_code |-> 200, body |-> EmptyDict],
    [raised |-> FALSE, status_code |-> 200, body |-> [output |-> "smk"]] }

\* The early returns of compress_text: no HTTP call is made.
CompressSkipsCall(text) == text \in BlankTexts \/ ~TOKEN_COMPANY_API_KEY

\* Mutant of CompressResult: a failed call yields the empty text.
CompressResultEmptyOnFailure(text, response) ==
  IF ~response.raised /\ response.status_code = 200
    THEN DictGet(response.body, "output", text)
    ELSE ""

\* What compress_text returns once the HTTP call has ended.
CompressResult(text, response) ==
  IF response.raised THEN text
  ELSE IF response.status_code = 200 THEN DictGet(response.body, "output", text)
  ELSE text

(***************************************************************************)
(* services/orchestrator.py: classify_incident.  A response of the model   *)
(* is an exception, a text json.loads rejects, or the JSON value parsed.   *)
(***************************************************************************)
FallbackClassification(reasoning) ==
  [incident_type |-> "UNKNOWN", severity |-> "MEDIUM", urgency |-> "SOON",
   confidence |-> "0.3", reasoning |-> reasoning, activate_agents |-> <<"EMS">>]

ClassifierDict(incident_type, activate_agents) ==
  [incident_type |-> incident_type, severity |-> "HIGH", urgency |-> "IMMEDIATE",
   confidence |-> "0.9", reasoning |-> "seen", activate_agents |-> activate_agents]

\* JSON objects the model may answer with: also ones that break the prompt's
\* rules (agents listed with NONE, a name listed twice, an unknown name,
\* keys left out).
ClassifierJson ==
  { ClassifierDict("FIRE", <<"FIRE">>),
    ClassifierDict("MULTI", <<"POLICE", "FIRE", "EMS">>),
    ClassifierDict("EMS", <<"EMS", "EMS">>),
    ClassifierDict("POLICE", <<"HAZMAT">>),
    ClassifierDict("FIRE", <<>>),
    ClassifierDict("NONE", <<>>),
    ClassifierDict("NONE", <<"FIRE">>),
    [severity |-> "HIGH", reasoning |-> "seen"] }

ClassifierResponses ==
  { [kind |-> "raise", mapping |-> FALSE, value |-> EmptyDict],
    [kind |-> "unparsable", mapping |-> FALSE, value |-> EmptyDict],
    [kind |-> "json", mapping |-> FALSE, value |-> EmptyDict] }
  \cup { [kind |-> "json", mapping |-> TRUE, value |-> j] : j \in ClassifierJson }

\* The value classify_incident returns; mapping says whether it is a dict.
ClassifyIncident(has_client, response) ==
  IF ~has_client
    THEN [mapping |-> TRUE,
          value |-> FallbackClassification("Classification unavailable - API not configured")]
  ELSE IF response.kind = "unparsable"
    THEN [mapping |-> TRUE, value |-> FallbackClassification("Failed to parse AI response")]
  ELSE IF response.kind = "raise"
    THEN [mapping |-> TRUE, value |-> FallbackClassification("Classification error: timeout")]
  ELSE [mapping |-> response.mapping, value |-> response.value]

\* Whether classify_incident took one of its three fallback returns.
ClassifierFailed(has_client, response) ==
  ~has_client \/ response.kind \in {"unparsable", "raise"}

(***************************************************************************)
(* agents/fire_agent.py, ems_agent.py, police_agent.py: run_*_agent.       *)
(***************************************************************************)
UpperName(agent) ==
  CASE agent = "fire" -> "FIRE" [] agent = "ems" -> "EMS" [] agent = "police" -> "POLICE"

AgentDict(key_facts, unknowns) ==
  [key_facts |-> key_facts, hazards |-> <<>>, equipment |-> <<>>, unknowns |-> unknowns]

AgentJson ==
  { AgentDict(<<"flames">>, <<>>),
    [key_facts |-> <<"flames">>, activated |-> FALSE] }

AgentResponses ==
  { [kind |-> "raise", mapping |-> FALSE, value |-> EmptyDict],
    [kind |-> "json", mapping |-> FALSE, value |-> EmptyDict] }
  \cup { [kind |-> "json", mapping |-> TRUE, value |-> j] : j \in AgentJson }

\* key_facts of an agent that has no client.
Unavailable(agent) ==
  CASE agent = "fire" -> "Fire agent unavailable - API not configured"
    [] agent = "ems" -> "EMS agent unavailable - API not configured"
    [] agent = "police" -> "Police agent unavailable - API not configured"

\* The value run_<agent>_agent returns: it catches every exception itself.
RunAgent(agent, has_client, response) ==
  IF ~has_client
    THEN [mapping |-> TRUE,
          value |-> AgentDict(<<Unavailable(agent)>>,
                              <<"All details unknown">>)]
  ELSE IF response.kind = "unparsable"
    THEN [mapping |-> TRUE,
          value |-> AgentDict(<<"Failed to parse response">>,
                              <<"Response parsing failed">>)]
  ELSE IF response.kind = "raise"
    THEN [mapping |-> TRUE, value |-> AgentDict(<<"Error: timeout">>, <<>>)]
  ELSE [mapping |-> response.mapping, value |-> response.value]


(***************************************************************************)
(* The initial state: the module has been imported, manager is empty, no   *)
(* socket has connected.                                                   *)
(***************************************************************************)
NewCycle(camera_id) ==
  [camera_id |-> camera_id, pc |-> "created", buffer |-> <<>>, raw_text |-> "",
   compressed_text |-> "", classification |-> EmptyDict,
   classifier_failed |-> FALSE, agents_to_run |-> <<>>, tasks |-> <<>>,
   agent_reports |-> EmptyDict, report |-> EmptyDict, bc |-> NoBroadcast,
   calls |-> <<>>, trigger |-> ""]

\* asyncio.create_task(process_buffer(camera_id)); trigger is history, the
\* type of the message that created the task.
CreateTask(tasks, camera_id, trigger) ==
  Append(tasks, [NewCycle(camera_id) EXCEPT !.trigger = trigger])

Init ==
  /\ camera_connections = EmptyDict
  /\ dispatcher_connections = <<>>
  /\ text_buffers = EmptyDict
  /\ buffer_start_times = EmptyDict
  /\ HAS_COMPRESSION \in BOOLEAN
  /\ TOKEN_COMPANY_API_KEY \in BOOLEAN
  /\ client \in BOOLEAN
  /\ now = 0
  /\ cam = [w \in CamSockets |->
              [pc |-> "idle", camera_id |-> "", bc |-> NoBroadcast, exception |-> "",
               discarded |-> <<>>]]
  /\ disp = [d \in DispSockets |->
               [pc |-> "idle", alive |-> TRUE, message |-> EmptyDict,
                exception |-> "", received |-> 0, decision |-> ""]]
  /\ cycles = <<>>
  /\ running = 0
  /\ inbox = [d \in DispSockets |-> <<>>]
  /\ appended = [id \in CameraIds |-> <<>>]
  /\ nfragments = 0

\* The clock advances, also while a blocking call holds the event loop.
Tick ==
  /\ now < MaxTime
  /\ now' = now + 1
  /\ UNCHANGED <<manager, config, cam, disp, cycles, running, inbox, appended,
                 nfragments>>

(***************************************************************************)
(* camera_websocket and ConnectionManager.connect_camera /                 *)
(* disconnect_camera.                                                      *)
(***************************************************************************)
\* connect_camera, from the accept to the first send of its broadcast.
CameraConnect(w, camera_id) ==
  LET bc == BroadcastBegin(w, CameraConnectedMessage(camera_id),
                           dispatcher_connections)
  IN /\ running = 0
     /\ cam[w].pc = "idle"
     /\ camera_connections' = DictSet(camera_connections, camera_id, w)
     /\ text_buffers' = DictSet(text_buffers, camera_id, <<>>)
     /\ buffer_start_times' = DictSet(buffer_start_times, camera_id, now)
     /\ cam' = [cam EXCEPT ![w] =
                  [pc |-> IF bc.state = "done" THEN "receiving" ELSE "connecting",
                   camera_id |-> camera_id, bc |-> bc, exception |-> "",
                   discarded |-> <<>>]]
     /\ appended' = [appended EXCEPT ![camera_id] = <<>>]
     /\ UNCHANGED <<dispatcher_connections, config, now, disp, cycles, running,
                    inbox, nfragments>>

\* connect_camera's broadcast resumes from a send.
CameraBroadcastStep(w) ==
  LET bc2 == BroadcastResumed(cam[w].bc, dispatcher_connections)
  IN /\ running = 0
     /\ cam[w].pc = "connecting"
     /\ cam' = [cam EXCEPT ![w].bc = bc2,
                           ![w].pc = IF bc2.state = "done" THEN "receiving" ELSE @]
     /\ dispatcher_connections' = ConnectionsAfter(bc2, dispatcher_connections)
     /\ inbox' = InboxAfter(cam[w].bc)
     /\ UNCHANGED <<camera_connections, text_buffers, buffer_start_times, config,
                    now, disp, cycles, running, appended, nfragments>>

\* Mutant of DisconnectCamera: the entry of the id stays.
DisconnectCameraKeeps(d, camera_id) == d

\* ConnectionManager.disconnect_camera.  The handlers that call it keep, as
\* history in discarded, the buffer that the call found and deleted.
DisconnectCamera(d, camera_id) ==
  IF camera_id \in DOMAIN d THEN DictDel(d, camera_id) ELSE d

\* The messages a camera client sends.
CameraMessages ==
  { [type |-> "overshoot_result", description |-> "smoke"],
    [type |-> "overshoot_result", description |-> "flames", timestamp |-> "client"],
    [type |-> "overshoot_result"],
    [type |-> "force_process"],
    [type |-> "ping"] }

\* The fragment an overshoot_result appends: its text and its timestamp.
\* seq and snapshot are history: the number of the append, and the image
\* reference the message carried, which the handler does not read.
Fragment(data, t, n) ==
  [text |-> DictGet(data, "description", ""),
   timestamp |-> DictGet(data, "timestamp", Isoformat(t)),
   seq |-> n,
   snapshot |-> DictGet(data, "snapshot", "")]

\* One turn of camera_websocket's loop: receive_json returned data.
CameraReceive(w, data, limit) ==
  LET camera_id == cam[w].camera_id
      type == DictGet(data, "type", "None")
  IN /\ running = 0
     /\ cam[w].pc = "receiving"
     /\ IF type = "overshoot_result"
          THEN IF camera_id \notin DOMAIN text_buffers
                 THEN \* KeyError, caught by "except Exception"
                      /\ camera_connections' = DisconnectCamera(camera_connections, camera_id)
                      /\ text_buffers' = DisconnectCamera(text_buffers, camera_id)
                      /\ buffer_start_times' = DisconnectCamera(buffer_start_times, camera_id)
                      /\ cam' = [cam EXCEPT ![w].pc = "error",
                                            ![w].exception = "KeyError"]
                      /\ appended' = [appended EXCEPT ![camera_id] = <<>>]
                      /\ UNCHANGED <<cycles, nfragments>>
                 ELSE LET launch == WindowElapsed(buffer_start_times[camera_id], now)
                          fragment == Fragment(data, now, nfragments + 1)
                      IN /\ Len(text_buffers[camera_id]) < MaxBuffer
                         /\ nfragments < MaxFragments
                         /\ launch => Len(cycles) < limit
                         /\ text_buffers' = [text_buffers EXCEPT ![camera_id] =
                                               Append(@, fragment)]
                         /\ cycles' = IF launch THEN CreateTask(cycles, camera_id, type)
                                                ELSE cycles
                         /\ appended' = [appended EXCEPT ![camera_id] = Append(@, fragment)]
                         /\ nfragments' = nfragments + 1
                         /\ UNCHANGED <<camera_connections, buffer_start_times, cam>>
          ELSE IF type = "force_process"
                 THEN /\ Len(cycles) < limit
                      /\ cycles' = CreateTask(cycles, camera_id, type)
                      /\ UNCHANGED <<camera_connections, text_buffers,
                                     buffer_start_times, cam, appended, nfragments>>
                 ELSE UNCHANGED <<camera_connections, text_buffers, buffer_start_times,
                                  cam, cycles, appended, nfragments>>
     /\ UNCHANGED <<dispatcher_connections, config, now, disp, running, inbox>>

\* receive_json returned a value that is no JSON object (an array, a string,
\* a number), so data.get raises AttributeError: "except Exception" runs
\* disconnect_camera and the handler ends.
CameraReceiveInvalid(w) ==
  LET camera_id == cam[w].camera_id
  IN /\ running = 0
     /\ cam[w].pc = "receiving"
     /\ camera_connections' = DisconnectCamera(camera_connections, camera_id)
     /\ text_buffers' = DisconnectCamera(text_buffers, camera_id)
     /\ buffer_start_times' = DisconnectCamera(buffer_start_times, camera_id)
     /\ cam' = [cam EXCEPT ![w].pc = "error", ![w].exception = "AttributeError",
                           ![w].discarded = DictGet(text_buffers, camera_id, <<>>)]
     /\ appended' = [appended EXCEPT ![camera_id] = <<>>]
     /\ UNCHANGED <<dispatcher_connections, config, now, disp, cycles, running,
                    inbox, nfragments>>

\* receive_json raises WebSocketDisconnect: the client has gone.
CameraDisconnect(w) ==
  LET camera_id == cam[w].camera_id
  IN /\ running = 0
     /\ cam[w].pc = "receiving"
     /\ camera_connections' = DisconnectCamera(camera_connections, camera_id)
     /\ text_buffers' = DisconnectCamera(text_buffers, camera_id)
     /\ buffer_start_times' = DisconnectCamera(buffer_start_times, camera_id)
     /\ cam' = [cam EXCEPT ![w].pc = "closed",
                           ![w].discarded = DictGet(text_buffers, camera_id, <<>>)]
     /\ appended' = [appended EXCEPT ![camera_id] = <<>>]
     /\ UNCHANGED <<dispatcher_connections, config, now, disp, cycles, running,
                    inbox, nfragments>>

(***************************************************************************)
(* dispatcher_websocket and ConnectionManager.connect_dispatcher /         *)
(* disconnect_dispatcher.                                                  *)
(***************************************************************************)
\* connect_dispatcher, from the accept to the send of the camera list.
DispatcherConnect(d) ==
  /\ running = 0
  /\ disp[d].pc = "idle"
  /\ disp[d].alive
  /\ dispatcher_connections' = Append(dispatcher_connections, d)
  /\ disp' = [disp EXCEPT ![d].pc = "sending_list",
                          ![d].message = CameraListMessage(camera_connections)]
  /\ UNCHANGED <<camera_connections, text_buffers, buffer_start_times, config,
                 now, cam, cycles, running, inbox, appended, nfragments>>

\* The send of the camera list ends: the handler enters its loop, or the
\* exception of the send ends the handler outside its try block.
DispatcherListSent(d) ==
  /\ running = 0
  /\ disp[d].pc = "sending_list"
  /\ IF SendSucceeds(d)
       THEN /\ inbox' = Deliver(inbox, d, d, disp[d].message)
            /\ disp' = [disp EXCEPT ![d].pc = "receiving"]
       ELSE /\ disp' = [disp EXCEPT ![d].pc = "failed"]
            /\ UNCHANGED inbox
  /\ UNCHANGED <<manager, config, now, cam, cycles, running, appended, nfragments>>

\* The dispatcher client goes away; the server has not noticed yet.
DispatcherDrop(d) ==
  /\ disp[d].pc \in {"sending_list", "receiving"}
  /\ disp[d].alive
  /\ disp' = [disp EXCEPT ![d].alive = FALSE]
  /\ UNCHANGED <<manager, config, now, cam, cycles, running, inbox, appended,
                 nfragments>>

\* The messages a dispatcher client sends.
DispatcherMessages ==
  { [type |-> "confirm", incident_id |-> "INC_cam1_0", dispatcher_id |-> "desk1"],
    [type |-> "reject", incident_id |-> "INC_cam1_0"],
    [type |-> "ping"],
    [incident_id |-> "INC_cam1_0"] }

\* The "decision" that the handler hands to log_trace for a message, or ""
\* when the message is neither a confirm nor a reject.
Decision(data) ==
  CASE DictGet(data, "type", "None") = "confirm" -> "CONFIRMED"
    [] DictGet(data, "type", "None") = "reject" -> "REJECTED"
    [] OTHER -> ""

\* The confirm and reject messages among them.
DecisionMessages == {data \in DispatcherMessages : Decision(data) # ""}

\* Mutant of DispatcherReceive: a decision takes the dispatcher off the list.
DispatcherReceiveUnregisters(d, data) ==
  /\ running = 0
  /\ disp[d].pc = "receiving"
  /\ disp[d].alive
  /\ disp[d].received < MaxReceived
  /\ disp' = [disp EXCEPT ![d].received = @ + 1, ![d].decision = Decision(data)]
  /\ dispatcher_connections' = IF Decision(data) = "" THEN dispatcher_connections
                                ELSE DisconnectDispatcher(dispatcher_connections, d)
  /\ UNCHANGED <<camera_connections, text_buffers, buffer_start_times, config,
                 now, cam, cycles, running, inbox, appended, nfragments>>

\* One turn of dispatcher_websocket's loop: receive_json returned data.  A
\* confirm or a reject is printed and handed to log_trace, which is the stub
\* that prints (the import of app.services.phoenix_tracer fails); received
\* and decision are history, the number of messages handled and the decision
\* last logged.
DispatcherReceive(d, data) ==
  /\ running = 0
  /\ disp[d].pc = "receiving"
  /\ disp[d].alive
  /\ DictGet(data, "type", "None") \in {"confirm", "reject", "ping", "None"}
  /\ disp[d].received < MaxReceived
  /\ disp' = [disp EXCEPT ![d].received = @ + 1, ![d].decision = Decision(data)]
  /\ UNCHANGED <<manager, config, now, cam, cycles, running, inbox, appended,
                 nfragments>>

\* receive_json returned a value that is no JSON object: data.get raises
\* AttributeError, "except Exception" runs disconnect_dispatcher and the
\* handler ends.
DispatcherReceiveInvalid(d) ==
  /\ running = 0
  /\ disp[d].pc = "receiving"
  /\ disp[d].alive
  /\ dispatcher_connections' = DisconnectDispatcher(dispatcher_connections, d)
  /\ disp' = [disp EXCEPT ![d].pc = "error", ![d].exception = "AttributeError"]
  /\ UNCHANGED <<camera_connections, text_buffers, buffer_start_times, config,
                 now, cam, cycles, running, inbox, appended, nfragments>>

\* receive_json raises WebSocketDisconnect: disconnect_dispatcher.
DispatcherDisconnect(d) ==
  /\ running = 0
  /\ disp[d].pc = "receiving"
  /\ ~disp[d].alive
  /\ dispatcher_connections' = DisconnectDispatcher(dispatcher_connections, d)
  /\ disp' = [disp EXCEPT ![d].pc = "closed"]
  /\ UNCHANGED <<camera_connections, text_buffers, buffer_start_times, config,
                 now, cam, cycles, running, inbox, appended, nfragments>>

(***************************************************************************)
(* process_buffer: one triage cycle, a task of its own.                    *)
(***************************************************************************)
\* History of a cycle: the collaborators it called, with what, and how the
\* call ended.
Call(callee, input, outcome, result) ==
  [callee |-> callee, input |-> input, outcome |-> outcome, result |-> result]

Texts(buffer) == [i \in DOMAIN buffer |-> buffer[i].text]

\* Mutant of ResetBuffer: the flush empties every buffer.
ResetEveryBuffer(buffers, camera_id) ==
  [id \in DOMAIN buffers \cup {camera_id} |-> <<>>]

\* Mutant of ResetBuffer: the flush leaves the buffer as it is.
ResetBufferKeeps(buffers, camera_id) == buffers

\* manager.text_buffers[camera_id] = []
ResetBuffer(buffers, camera_id) == DictSet(buffers, camera_id, <<>>)

\* manager.buffer_start_times[camera_id] = datetime.now()
ResetWindow(starts, camera_id, t) == DictSet(starts, camera_id, t)

\* Mutant of RawText: the fragments are joined newest first.
RawTextNewestFirst(buffer) ==
  JoinLines([i \in DOMAIN buffer |-> buffer[Len(buffer) + 1 - i].text])

\* raw_text = "\n".join([item["text"] for item in buffer])
RawText(buffer) == JoinLines(Texts(buffer))

\* Mutant of EmptyBuffer: the flush goes on whatever the buffer holds.
EmptyBufferNever(buffer) == FALSE

\* if not buffer: return
EmptyBuffer(buffer) == buffer = <<>>

\* The task's first run: the flush, and compress_text up to its HTTP call.
\* The event loop runs tasks in the order of their creation.
ProcessBufferStart(k) ==
  LET camera_id == cycles[k].camera_id
      buffer == DictGet(text_buffers, camera_id, <<>>)
      raw_text == RawText(buffer)
      suspends == HAS_COMPRESSION /\ ~CompressSkipsCall(raw_text)
  IN /\ running = 0
     /\ k \in DOMAIN cycles
     /\ cycles[k].pc = "created"
     /\ \A j \in 1..(k - 1) : cycles[j].pc # "created"
     /\ IF EmptyBuffer(buffer)
          THEN /\ cycles' = [cycles EXCEPT ![k].pc = "skipped"]
               /\ UNCHANGED <<text_buffers, buffer_start_times, running>>
          ELSE /\ text_buffers' = ResetBuffer(text_buffers, camera_id)
               /\ buffer_start_times' = ResetWindow(buffer_start_times, camera_id, now)
               /\ cycles' = [cycles EXCEPT
                    ![k].buffer = buffer,
                    ![k].raw_text = raw_text,
                    ![k].compressed_text = IF suspends THEN "" ELSE raw_text,
                    ![k].calls = IF HAS_COMPRESSION /\ ~suspends
                                   THEN <<Call("compressor", raw_text,
                                               IF raw_text \in BlankTexts
                                                 THEN "blank" ELSE "no_key",
                                               EmptyDict)>>
                                   ELSE <<>>,
                    ![k].pc = IF suspends THEN "compressing" ELSE "classify"]
               /\ running' = IF suspends THEN 0 ELSE k
     /\ UNCHANGED <<camera_connections, dispatcher_connections, config, now, cam,
                    disp, inbox, appended, nfragments>>

\* The HTTP call of compress_text ends: the task resumes and runs on into
\* the classifier's blocking call.
CompressReturn(k, response) ==
  /\ running = 0
  /\ k \in DOMAIN cycles
  /\ cycles[k].pc = "compressing"
  /\ cycles' = [cycles EXCEPT
       ![k].compressed_text = CompressResult(cycles[k].raw_text, response),
       ![k].calls = Append(@, Call("compressor", cycles[k].raw_text,
                                   IF response.raised \/ response.status_code # 200
                                     THEN "failed" ELSE "returned", EmptyDict)),
       ![k].pc = "classify"]
  /\ running' = k
  /\ UNCHANGED <<manager, config, now, cam, disp, inbox, appended, nfragments>>

\* Mutant of AgentTasks: every agent runs, whatever is listed.
AgentTasksAll(names, agents_to_run) == names

\* Mutant of AgentTasks: no agent task is made, the alert is assembled next.
AgentTasksNone(names, agents_to_run) == <<>>

\* Mutant of AgentTasks: one task for every listing of a known name.
AgentTasksPerListing(names, agents_to_run) ==
  LET known == SelectSeq(agents_to_run,
                         LAMBDA u : \E a \in Range(names) : UpperName(a) = u)
  IN [i \in DOMAIN known |-> CHOOSE a \in Range(names) : UpperName(a) = known[i]]

\* The (name, coroutine) pairs of the agents listed in activate_agents.
RECURSIVE AgentTasks(_, _)
AgentTasks(names, agents_to_run) ==
  IF names = <<>> THEN <<>>
  ELSE (IF UpperName(Head(names)) \in Range(agents_to_run) THEN <<Head(names)>> ELSE <<>>)
       \o AgentTasks(Tail(names), agents_to_run)

\* Mutant of NoEmergency: the cycle stops when no agent is listed.
NoEmergencyByAgents(classification) ==
  DictGet(classification, "activate_agents", <<>>) = <<>>

\* if classification.get("incident_type") == "NONE": return
NoEmergency(classification) ==
  DictGet(classification, "incident_type", "None") = "NONE"

\* classify_incident, and process_buffer up to the list of agent tasks.
Classify(k, response) ==
  LET returned == ClassifyIncident(client, response)
      classification == returned.value
      agents_to_run == DictGet(classification, "activate_agents", <<>>)
      call == Call("classifier", cycles[k].compressed_text,
                   IF ClassifierFailed(client, response) THEN "failed" ELSE "returned",
                   returned.value)
  IN /\ running = k
     /\ cycles[k].pc = "classify"
     /\ IF ~returned.mapping
          THEN \* classification.get raises: the task ends with the exception
               /\ cycles' = [cycles EXCEPT ![k].calls = Append(@, call),
                                           ![k].pc = "crashed"]
               /\ running' = 0
          ELSE IF NoEmergency(classification)
            THEN /\ cycles' = [cycles EXCEPT ![k].calls = Append(@, call),
                                             ![k].classification = classification,
                                             ![k].pc = "no_emergency"]
                 /\ running' = 0
            ELSE /\ cycles' = [cycles EXCEPT
                      ![k].calls = Append(@, call),
                      ![k].classification = classification,
                      ![k].classifier_failed = ClassifierFailed(client, response),
                      ![k].agents_to_run = agents_to_run,
                      ![k].tasks = AgentTasks(AgentNames, agents_to_run),
                      ![k].pc = "agents"]
                 /\ UNCHANGED running
     /\ UNCHANGED <<manager, config, now, cam, disp, inbox, appended, nfragments>>

\* try: result = await coro; agent_reports[name] = {"activated": True, **result}
\* except Exception as e: agent_reports[name] = {"activated": True, "error": str(e)}
\* Mutant of AgentReport: a failed agent is recorded as not activated.
AgentReportDropsFailure(returned) ==
  IF returned.mapping
    THEN DictMerge([activated |-> TRUE], returned.value)
    ELSE [activated |-> FALSE, reason |-> "agent failed"]

AgentReport(returned) ==
  IF returned.mapping
    THEN DictMerge([activated |-> TRUE], returned.value)
    ELSE [activated |-> TRUE, error |-> "object is not a mapping"]

\* One turn of the loop over the agent tasks: the agent runs to its end.
AwaitAgent(k, response) ==
  LET agent == Head(cycles[k].tasks)
      returned == RunAgent(agent, client, response)
  IN /\ running = k
     /\ cycles[k].pc = "agents"
     /\ cycles[k].tasks # <<>>
     /\ cycles' = [cycles EXCEPT
          ![k].agent_reports = DictSet(@, agent, AgentReport(returned)),
          ![k].calls = Append(@, Call(agent, cycles[k].compressed_text,
                                      IF returned.mapping THEN "returned" ELSE "raised",
                                      returned.value)),
          ![k].tasks = Tail(@)]
     /\ UNCHANGED <<manager, config, now, cam, disp, inbox, appended, nfragments,
                    running>>

\* for agent in ["fire", "ems", "police"]: if agent not in agent_reports: ...
NotActivatedReport(classification) ==
  [activated |-> FALSE,
   reason |-> "Not needed for " \o DictGet(classification, "incident_type", "None")
              \o " incident"]

\* Mutant of MarkNotActivated: the agents that did not run get no report.
MarkNotActivatedSkips(agent_reports, classification) == agent_reports

MarkNotActivated(agent_reports, classification) ==
  [a \in DOMAIN agent_reports \cup Range(AgentNames) |->
     IF a \in DOMAIN agent_reports THEN agent_reports[a]
     ELSE NotActivatedReport(classification)]

\* incident_id = f"INC_{camera_id}_{int(datetime.now().timestamp())}"
IncidentId(camera_id, t) ==
  "INC_" \o camera_id \o "_" \o ToString(TimestampSeconds(t))

BuildReport(c, agent_reports, t) ==
  [id |-> IncidentId(c.camera_id, t),
   timestamp |-> Isoformat(t),
   camera_id |-> c.camera_id,
   classification |->
     [incident_type |-> DictGet(c.classification, "incident_type", "UNKNOWN"),
      severity |-> DictGet(c.classification, "severity", "MEDIUM"),
      urgency |-> DictGet(c.classification, "urgency", "SOON"),
      confidence |-> DictGet(c.classification, "confidence", "0.5")],
   summary |-> DictGet(c.classification, "reasoning", "Incident detected"),
   agents_activated |-> c.agents_to_run,
   agent_reports |-> agent_reports,
   clip |-> [start_time |-> c.buffer[1].timestamp,
             end_time |-> c.buffer[Len(c.buffer)].timestamp,
             url |-> "None"],
   status |-> "PENDING_REVIEW",
   raw_context |-> c.compressed_text]

CycleBid(k) == "cycle" \o ToString(k)

\* The agents are done: the report is built and its broadcast begins.
Assemble(k) ==
  LET c == cycles[k]
      agent_reports == MarkNotActivated(c.agent_reports, c.classification)
      report == BuildReport(c, agent_reports, now)
      bc == BroadcastBegin(CycleBid(k), AlertMessage(report), dispatcher_connections)
  IN /\ running = k
     /\ c.pc = "agents"
     /\ c.tasks = <<>>
     /\ cycles' = [cycles EXCEPT
          ![k].agent_reports = agent_reports,
          ![k].report = report,
          ![k].bc = bc,
          ![k].pc = IF bc.state = "done" THEN "done" ELSE "broadcasting"]
     /\ running' = 0
     /\ UNCHANGED <<manager, config, now, cam, disp, inbox, appended, nfragments>>

\* The alert's broadcast resumes from a send.
CycleBroadcastStep(k) ==
  LET bc2 == BroadcastResumed(cycles[k].bc, dispatcher_connections)
  IN /\ running = 0
     /\ k \in DOMAIN cycles
     /\ cycles[k].pc = "broadcasting"
     /\ cycles' = [cycles EXCEPT ![k].bc = bc2,
                                 ![k].pc = IF bc2.state = "done" THEN "done" ELSE @]
     /\ dispatcher_connections' = ConnectionsAfter(bc2, dispatcher_connections)
     /\ inbox' = InboxAfter(cycles[k].bc)
     /\ UNCHANGED <<camera_connections, text_buffers, buffer_start_times, config,
                    now, cam, disp, running, appended, nfragments>>

(***************************************************************************)
(* The system.                                                             *)
(***************************************************************************)
\* The steps of the camera handlers, with sockets, ids and messages drawn
\* from the given sets and at most limit tasks created.
CameraNext(sockets, ids, messages, limit) ==
  \/ \E w \in sockets, camera_id \in ids : CameraConnect(w, camera_id)
  \/ \E w \in sockets : CameraBroadcastStep(w)
  \/ \E w \in sockets, data \in messages : CameraReceive(w, data, limit)
  \/ \E w \in sockets : CameraDisconnect(w)

\* The steps of the dispatcher handlers and of their clients.
DispatcherNext(dispatchers) ==
  \/ \E d \in dispatchers : DispatcherConnect(d)
  \/ \E d \in dispatchers : DispatcherListSent(d)
  \/ \E d \in dispatchers : DispatcherDrop(d)
  \/ \E d \in dispatchers : DispatcherDisconnect(d)

\* The steps of the triage cycles, with the responses of the compressor, the
\* classifier and the agents drawn from the given sets.
CycleNext(compressor, classifier, agents) ==
  \/ \E k \in DOMAIN cycles : ProcessBufferStart(k)
  \/ \E k \in DOMAIN cycles, r \in compressor : CompressReturn(k, r)
  \/ \E k \in DOMAIN cycles, r \in classifier : Classify(k, r)
  \/ \E k \in DOMAIN cycles, r \in agents : AwaitAgent(k, r)
  \/ \E k \in DOMAIN cycles : Assemble(k)
  \/ \E k \in DOMAIN cycles : CycleBroadcastStep(k)

PipelineMessages ==
  { [type |-> "overshoot_result", description |-> "smoke"],
    [type |-> "force_process"] }

\* The triage pipeline: one camera, one dispatcher, one cycle, and every
\* response of the collaborators.
Next ==
  \/ CameraNext({"w1"}, {"cam1"}, PipelineMessages, PipelineCycles)
  \/ DispatcherNext({"d1"})
  \/ CycleNext(CompressorResponses, ClassifierResponses, AgentResponses)

Spec == Init /\ [][Next]_vars

\* A deployment with every key set: the compressor and the model are called.
InitConfigured == Init /\ HAS_COMPRESSION /\ TOKEN_COMPANY_API_KEY /\ client

\* Buffering: one camera whose cycles overlap, the clock running, no
\* dispatcher listening, and collaborators that answer in one way.
BufferMessages ==
  { [type |-> "overshoot_result", description |-> "smoke"],
    [type |-> "overshoot_result", timestamp |-> "client"],
    [type |-> "force_process"] }

BufferCompressor == {[raised |-> FALSE, status_code |-> 200, body |-> [output |-> "smk"]]}

BufferClassifier == {[kind |-> "json", mapping |-> TRUE,
                      value |-> ClassifierDict("FIRE", <<"FIRE">>)]}

BufferAgents == {[kind |-> "json", mapping |-> TRUE, value |-> AgentDict(<<"flames">>, <<>>)]}

NextBuffer ==
  \/ Tick
  \/ CameraConnect("w1", "cam1")
  \/ \E data \in BufferMessages : CameraReceive("w1", data, MaxCycles)
  \/ CameraDisconnect("w1")
  \/ \E k \in DOMAIN cycles : ProcessBufferStart(k)
  \/ \E k \in DOMAIN cycles, r \in BufferCompressor : CompressReturn(k, r)
  \/ \E k \in DOMAIN cycles, r \in BufferClassifier : Classify(k, r)
  \/ \E k \in DOMAIN cycles, r \in BufferAgents : AwaitAgent(k, r)
  \/ \E k \in DOMAIN cycles : Assemble(k)

SpecBuffer == InitConfigured /\ [][NextBuffer]_vars

\* The registry: a camera that connects and says nothing the backend acts
\* on, and dispatchers that come and go while a broadcast is in flight.
RegistryMessages == {[type |-> "ping"]}

NextRegistry ==
  \/ CameraNext({"w1"}, {"cam1"}, RegistryMessages, 0)
  \/ DispatcherNext(DispSockets)

SpecRegistry == InitConfigured /\ [][NextRegistry]_vars

\* Sessions: two camera sockets that register under the same id, one
\* dispatcher, cycles launched by force_process, and clients that also send
\* what is no JSON object.
SessionMessages ==
  { [type |-> "overshoot_result", description |-> "smoke"],
    [type |-> "force_process"],
    [type |-> "ping"] }

NextSessions ==
  \/ CameraNext(CamSockets, {"cam1"}, SessionMessages, SessionCycles)
  \/ \E w \in CamSockets : CameraReceiveInvalid(w)
  \/ DispatcherNext({"d1"})
  \/ \E data \in DispatcherMessages \ DecisionMessages : DispatcherReceive("d1", data)
  \/ DispatcherReceiveInvalid("d1")
  \/ CycleNext(BufferCompressor, BufferClassifier, BufferAgents)

SpecSessions == InitConfigured /\ [][NextSessions]_vars

\* Two cameras under different ids, the clock running, no dispatcher
\* listening, and collaborators that answer in one way.
NextCameras ==
  \/ Tick
  \/ CameraConnect("w1", "cam1")
  \/ CameraConnect("w2", "cam2")
  \/ \E w \in CamSockets, data \in PipelineMessages : CameraReceive(w, data, MaxCycles)
  \/ \E w \in CamSockets : CameraDisconnect(w)
  \/ \E k \in DOMAIN cycles : ProcessBufferStart(k)
  \/ \E k \in DOMAIN cycles, r \in BufferCompressor : CompressReturn(k, r)
  \/ \E k \in DOMAIN cycles, r \in BufferClassifier : Classify(k, r)
  \/ \E k \in DOMAIN cycles, r \in BufferAgents : AwaitAgent(k, r)
  \/ \E k \in DOMAIN cycles : Assemble(k)

SpecCameras == InitConfigured /\ [][NextCameras]_vars

\* Snapshots: one camera whose fragments may carry an image reference, one
\* dispatcher, and collaborators that answer in one way.
SnapshotMessages ==
  { [type |-> "overshoot_result", description |-> "smoke", snapshot |-> "img1"],
    [type |-> "overshoot_result", description |-> "flames", snapshot |-> "img2"],
    [type |-> "overshoot_result", description |-> "smoke"],
    [type |-> "force_process"] }

NextSnapshot ==
  \/ CameraNext({"w1"}, {"cam1"}, SnapshotMessages, MaxCycles)
  \/ DispatcherNext({"d1"})
  \/ CycleNext(BufferCompressor, BufferClassifier, BufferAgents)

SpecSnapshot == InitConfigured /\ [][NextSnapshot]_vars

\* Disconnects in mid-cycle: two sockets that register under one id, so that
\* the camera can leave and come back, one dispatcher, and a classifier that
\* finds an incident, finds none, or answers what is no object.  The event
\* loop runs a task that is ready, and an HTTP call or a send in flight
\* ends: the steps of the cycles are taken when they stay possible.
DisconnectClassifier ==
  { [kind |-> "json", mapping |-> TRUE, value |-> ClassifierDict("FIRE", <<"FIRE">>)],
    [kind |-> "json", mapping |-> TRUE, value |-> ClassifierDict("NONE", <<>>)],
    [kind |-> "json", mapping |-> FALSE, value |-> EmptyDict] }

CycleNextDisconnect == CycleNext(BufferCompressor, DisconnectClassifier, BufferAgents)

NextDisconnect ==
  \/ CameraNext(CamSockets, {"cam1"}, PipelineMessages, PipelineCycles)
  \/ DispatcherNext({"d1"})
  \/ CycleNextDisconnect

SpecDisconnect ==
  InitConfigured /\ [][NextDisconnect]_vars /\ WF_vars(CycleNextDisconnect)

\* Decisions: two dispatchers that confirm and reject while a camera
\* connects, fills its buffer and leaves, and a broadcast may be in flight.
DecisionCameraMessages ==
  { [type |-> "overshoot_result", description |-> "smoke"],
    [type |-> "ping"] }

NextDecisions ==
  \/ CameraNext({"w1"}, {"cam1"}, DecisionCameraMessages, 0)
  \/ DispatcherNext({"d1", "d2"})
  \/ \E d \in {"d1", "d2"}, data \in DecisionMessages : DispatcherReceive(d, data)

SpecDecisions == InitConfigured /\ [][NextDecisions]_vars

(***************************************************************************)
(* Properties of the buffer and its flush.                                 *)
(***************************************************************************)
\* The fragments appended to the live session of an id that no cycle has
\* taken, in the order of their arrival.
Pending(camera_id) ==
  SelectSeq(appended[camera_id],
            LAMBDA f : \A j \in DOMAIN cycles : f \notin Range(cycles[j].buffer))

\* The texts one per line, built from the last line backwards.
RECURSIVE OnePerLine(_)
OnePerLine(texts) ==
  IF Len(texts) = 0 THEN ""
  ELSE IF Len(texts) = 1 THEN texts[1]
  ELSE OnePerLine(SubSeq(texts, 1, Len(texts) - 1)) \o "\n" \o texts[Len(texts)]

\* The buffers the first n cycles flushed, one after the other: tasks start
\* in the order of their creation.
RECURSIVE ConsumedUpTo(_)
ConsumedUpTo(n) ==
  IF n = 0 THEN <<>> ELSE ConsumedUpTo(n - 1) \o cycles[n].buffer

\* C1: a flush that finds the buffer non-empty builds raw_text from exactly
\* the fragments appended since the last flush, in arrival order, one per
\* line, and leaves the camera's buffer empty and its window start at the
\* time of the flush.
C1_FlushInArrivalOrder ==
  [][\A k \in DOMAIN cycles :
       (cycles[k].pc = "created" /\ cycles'[k].pc \notin {"created", "skipped"})
       => LET camera_id == cycles[k].camera_id
          IN /\ cycles'[k].buffer = Pending(camera_id)
             /\ cycles'[k].raw_text = OnePerLine(Texts(Pending(camera_id)))
             /\ text_buffers'[camera_id] = <<>>
             /\ buffer_start_times'[camera_id] = now]_vars

\* C1 witness: a cycle has flushed two fragments with different texts, later
\* than the connect, and the buffer is empty.
C1_Witness ==
  \E k \in DOMAIN cycles :
    /\ Texts(cycles[k].buffer) = <<"smoke", "">>
    /\ cycles[k].raw_text = "smoke\n"
    /\ "cam1" \in DOMAIN text_buffers
    /\ text_buffers["cam1"] = <<>>
    /\ buffer_start_times["cam1"] = now
    /\ now > 0

\* C2: on a camera whose session is live, the fragments the cycles have
\* taken, followed by the buffer, are the fragments appended, each once and
\* in order; no two cycles hold the same fragment.
C2_NoFragmentLostOrDuplicated ==
  /\ \A camera_id \in DOMAIN text_buffers :
       SelectSeq(ConsumedUpTo(Len(cycles)),
                 LAMBDA f : f \in Range(appended[camera_id]))
         \o text_buffers[camera_id] = appended[camera_id]
  /\ \A j, k \in DOMAIN cycles :
       j # k => Range(cycles[j].buffer) \cap Range(cycles[k].buffer) = {}

\* C2 witness: a second cycle has flushed while the first is suspended in the
\* compressor, and a later fragment waits in the buffer.
C2_Witness ==
  /\ Len(cycles) = 2
  /\ cycles[1].pc = "compressing"
  /\ cycles[1].buffer # <<>>
  /\ cycles[2].buffer # <<>>
  /\ "cam1" \in DOMAIN text_buffers
  /\ text_buffers["cam1"] # <<>>

\* The cycles whose alert has been handed to broadcast_to_dispatchers.
Alerted == {k \in DOMAIN cycles : cycles[k].bc.state # "none"}

\* C10: two alerts of distinct cycles carry different ids.
C10_AlertIdsUnique ==
  \A j, k \in Alerted : j # k => cycles[j].report.id # cycles[k].report.id

(***************************************************************************)
(* Properties of the triage pipeline.                                      *)
(***************************************************************************)
\* The calls of cycle k to the specialist agents, in order.
AgentCalls(k) ==
  SelectSeq(cycles[k].calls, LAMBDA c : c.callee \in Range(AgentNames))

\* The agents cycle k has invoked.
Invoked(k) == {c.callee : c \in Range(AgentCalls(k))}

\* The calls of cycle k to one collaborator.
CallsTo(k, callee) == {c \in Range(cycles[k].calls) : c.callee = callee}

\* What socket d has been sent by the broadcast bid.
SentBy(bid, d) == SelectSeq(inbox[d], LAMBDA m : m.bid = bid)

\* C3: when the classifier returned incident_type NONE, the cycle has ended
\* with no agent invoked, no alert built and nothing broadcast, whatever the
\* compressor returned and whatever activate_agents holds.
C3_NoneStopsTheCycle ==
  \A k \in DOMAIN cycles :
    (\E c \in CallsTo(k, "classifier") :
        DictGet(c.result, "incident_type", "") = "NONE")
    => /\ cycles[k].pc = "no_emergency"
       /\ Invoked(k) = {}
       /\ cycles[k].report = EmptyDict
       /\ cycles[k].bc.state = "none"
       /\ \A d \in DispSockets : SentBy(CycleBid(k), d) = <<>>

\* C3 witness: the compressor shortened the text, the classifier answered
\* NONE and listed an agent, a dispatcher is listening, the cycle has ended.
C3_Witness ==
  \E k \in DOMAIN cycles :
    /\ cycles[k].pc = "no_emergency"
    /\ cycles[k].compressed_text = "smk"
    /\ \E c \in CallsTo(k, "classifier") :
         /\ c.result.incident_type = "NONE"
         /\ c.result.activate_agents = <<"FIRE">>
    /\ disp["d1"].pc = "receiving"
    /\ dispatcher_connections = <<"d1">>

\* C4: when the classifier call failed, the cycle goes on with the fallback
\* classification (confidence 0.3, activate_agents [EMS]): only the ems
\* agent is invoked, the alert lists EMS alone, records ems as activated and
\* fire and police as not activated, and a dispatcher is sent that alert at
\* most once, once when its send succeeded.
C4_ClassifierFailureFallsBack ==
  \A k \in DOMAIN cycles :
    (\E c \in CallsTo(k, "classifier") : c.outcome = "failed")
    => /\ cycles[k].pc \in {"agents", "broadcasting", "done"}
       /\ cycles[k].classification.confidence = "0.3"
       /\ cycles[k].classification.activate_agents = <<"EMS">>
       /\ Invoked(k) \subseteq {"ems"}
       /\ cycles[k].pc \in {"broadcasting", "done"}
            => /\ Invoked(k) = {"ems"}
               /\ Len(AgentCalls(k)) = 1
               /\ cycles[k].report.agents_activated = <<"EMS">>
               /\ cycles[k].report.classification.confidence = "0.3"
               /\ cycles[k].report.agent_reports["ems"].activated
               /\ ~cycles[k].report.agent_reports["fire"].activated
               /\ ~cycles[k].report.agent_reports["police"].activated
               /\ cycles[k].bc.message = AlertMessage(cycles[k].report)
       /\ \A d \in DispSockets :
            /\ Len(SentBy(CycleBid(k), d)) <= 1
            /\ d \in Range(cycles[k].bc.sent)
                 => SentBy(CycleBid(k), d) =
                      <<[bid |-> CycleBid(k), message |-> AlertMessage(cycles[k].report)]>>

\* C5: when the compressor failed (no key, a status other than 200, an
\* exception), the cycle goes on with raw_text: it is what the classifier and
\* every agent are called with.
C5_CompressorFailureKeepsRawText ==
  \A k \in DOMAIN cycles :
    (\E c \in CallsTo(k, "compressor") : c.outcome \in {"failed", "no_key"})
    => /\ cycles[k].compressed_text = cycles[k].raw_text
       /\ \A c \in Range(cycles[k].calls) : c.input = cycles[k].raw_text
       /\ cycles[k].pc \notin {"created", "skipped", "compressing"}
       /\ cycles[k].pc = "classify" => running = k

\* C5 witness: the compressor's call failed, and the classifier and an agent
\* have been called with the raw text.
C5_Witness ==
  \E k \in DOMAIN cycles :
    /\ cycles[k].raw_text = "smoke\nsmoke"
    /\ \E c \in CallsTo(k, "compressor") : c.outcome = "failed"
    /\ \E c \in CallsTo(k, "classifier") : c.input = "smoke\nsmoke"
    /\ \E c \in CallsTo(k, "fire") : c.input = "smoke\nsmoke"
    /\ cycles[k].pc = "done"

\* The agents the classifier's answer lists.
Listed(k) ==
  {a \in Range(AgentNames) :
     \E c \in CallsTo(k, "classifier") :
       UpperName(a) \in Range(DictGet(c.result, "activate_agents", <<>>))}

\* C6: in a cycle that has built its alert, the agents invoked are exactly
\* those of fire, ems and police that activate_agents lists, each invoked
\* once; an agent not listed was not invoked and its report says activated
\* false.
C6_ExactlyListedAgentsRun ==
  \A k \in DOMAIN cycles :
    cycles[k].report # EmptyDict
    => /\ Invoked(k) = Listed(k)
       /\ Len(AgentCalls(k)) = Cardinality(Listed(k))
       /\ \A a \in Range(AgentNames) \ Listed(k) :
            /\ CallsTo(k, a) = {}
            /\ ~cycles[k].report.agent_reports[a].activated

\* C6 witness: FIRE alone was listed, the fire agent alone ran, and the alert
\* that reached the dispatcher records ems and police as not activated.
C6_Witness ==
  \E k \in DOMAIN cycles :
    /\ cycles[k].pc = "done"
    /\ cycles[k].report.agents_activated = <<"FIRE">>
    /\ Invoked(k) = {"fire"}
    /\ cycles[k].report.agent_reports["fire"].activated
    /\ ~cycles[k].report.agent_reports["ems"].activated
    /\ ~cycles[k].report.agent_reports["police"].activated
    /\ Len(SentBy(CycleBid(k), "d1")) = 1

\* C7: an agent whose invocation raised is reported as activated with an
\* error and nothing else, an agent that returned is reported with what it
\* returned, and the cycle goes on to build and broadcast its alert with
\* these reports.
C7_AgentFailureIsIsolated ==
  \A k \in DOMAIN cycles :
    \A c \in Range(AgentCalls(k)) :
      /\ c.outcome = "raised"
           => /\ DOMAIN cycles[k].agent_reports[c.callee] = {"activated", "error"}
              /\ cycles[k].agent_reports[c.callee].activated
      /\ c.outcome = "returned"
           => /\ DOMAIN cycles[k].agent_reports[c.callee] =
                   DOMAIN c.result \cup {"activated"}
              /\ \A key \in DOMAIN c.result :
                   cycles[k].agent_reports[c.callee][key] = c.result[key]
      /\ cycles[k].pc \in {"agents", "broadcasting", "done"}
      /\ cycles[k].pc = "agents" => running = k
      /\ cycles[k].pc \in {"broadcasting", "done"}
           => /\ cycles[k].report.agent_reports = cycles[k].agent_reports
              /\ cycles[k].bc.message = AlertMessage(cycles[k].report)

\* C7 witness: of three agents the first raised and the others returned, and
\* the alert has reached the dispatcher.
C7_Witness ==
  \E k \in DOMAIN cycles :
    /\ cycles[k].pc = "done"
    /\ \E c \in CallsTo(k, "fire") : c.outcome = "raised"
    /\ \E c \in CallsTo(k, "ems") : c.outcome = "returned"
    /\ \E c \in CallsTo(k, "police") : c.outcome = "returned"
    /\ "error" \in DOMAIN cycles[k].report.agent_reports["fire"]
    /\ cycles[k].report.agent_reports["ems"].key_facts = <<"flames">>
    /\ Len(SentBy(CycleBid(k), "d1")) = 1

(***************************************************************************)
(* Properties of broadcast_to_dispatchers.                                 *)
(***************************************************************************)
\* C8: a broadcast in which a send failed has, when it ends, pruned the
\* failing sockets and no other, let its caller go on, and sent the message
\* once to every other dispatcher that was in the list when it began and is
\* there when it ends.
C8_SendFailureIsIsolated ==
  \A w \in CamSockets :
    LET bc == cam[w].bc
    IN (bc.state = "done" /\ bc.disconnected # <<>>)
       => /\ bc.removed = Range(bc.disconnected) \cap Range(bc.finish)
          /\ cam[w].pc # "connecting"
          /\ \A d \in (Range(bc.start) \cap Range(bc.finish)) \ Range(bc.disconnected) :
               /\ d \in Range(bc.sent)
               /\ SentBy(bc.bid, d) = <<[bid |-> bc.bid, message |-> bc.message]>>

\* C9: a dispatcher that was in the list when a broadcast began and when it
\* ended, and whose client is there, has been sent the message exactly once.
C9_EveryMemberIsSentOnce ==
  \A w \in CamSockets :
    LET bc == cam[w].bc
    IN bc.state = "done"
       => \A d \in Range(bc.start) \cap Range(bc.finish) :
            disp[d].alive => Len(SentBy(bc.bid, d)) = 1

(***************************************************************************)
(* Properties of the flush and of the camera handler.                      *)
(***************************************************************************)
\* C11: a process_buffer task that finds its camera's buffer empty (or its
\* camera gone) ends at once: it calls no collaborator, builds no alert,
\* broadcasts nothing, leaves the registry (buffers and window starts
\* included) and every inbox as they were, and never acts again.
C11_EmptyFlushIsNoOp ==
  [][\A k \in DOMAIN cycles :
       /\ (/\ cycles[k].pc = "created"
           /\ cycles'[k].pc # "created"
           /\ DictGet(text_buffers, cycles[k].camera_id, <<>>) = <<>>)
          => /\ cycles'[k].pc = "skipped"
             /\ cycles'[k].calls = <<>>
             /\ cycles'[k].report = EmptyDict
             /\ cycles'[k].bc = NoBroadcast
             /\ UNCHANGED <<manager, inbox, running>>
       /\ cycles[k].pc = "skipped" => cycles'[k] = cycles[k]]_vars

\* C11 witness: a task has been skipped on a connected camera whose buffer
\* is empty and whose window start is still the earlier connect time.
C11_Witness ==
  \E k \in DOMAIN cycles :
    /\ cycles[k].pc = "skipped"
    /\ cycles[k].camera_id \in DOMAIN text_buffers
    /\ text_buffers[cycles[k].camera_id] = <<>>
    /\ buffer_start_times[cycles[k].camera_id] < now

\* What a step has appended to the buffer of camera_id, if anything.
AppendedTo(camera_id) ==
  /\ camera_id \in DOMAIN text_buffers
  /\ camera_id \in DOMAIN text_buffers'
  /\ Len(text_buffers'[camera_id]) = Len(text_buffers[camera_id]) + 1

C14_AbsentSessionKeepsServing ==
  \A w \in CamSockets :
    cam[w].exception = "KeyError" => cam[w].pc \in {"receiving", "closed"}

\* C15: a handler, of a camera or of a dispatcher, that received a message
\* of unexpected shape has not been ended by it: it is in its receive loop,
\* or its client has gone since; and a dispatcher whose handler is in its
\* receive loop after handling a message is still in the dispatcher list
\* unless a failed send pruned it.
C15_UnexpectedMessageIsNoOp ==
  /\ \A w \in CamSockets :
       cam[w].exception = "AttributeError" => cam[w].pc \in {"receiving", "closed"}
  /\ \A d \in DispSockets :
       /\ disp[d].exception = "AttributeError" => disp[d].pc \in {"receiving", "closed"}
       /\ (disp[d].received > 0 /\ disp[d].pc = "receiving" /\ disp[d].alive)
            => d \in Range(dispatcher_connections)

\* A step of camera_id: an append to its buffer, the creation of a task
\* for it, or a step of one of its tasks (the flush included).
StepOfCamera(camera_id) ==
  \/ AppendedTo(camera_id)
  \/ /\ Len(cycles') > Len(cycles)
     /\ cycles'[Len(cycles')].camera_id = camera_id
  \/ \E k \in DOMAIN cycles :
       cycles[k].camera_id = camera_id /\ cycles'[k] # cycles[k]

\* The session of camera_id is after the step what it was before.
SessionUnchanged(camera_id) ==
  /\ camera_id \in DOMAIN text_buffers <=> camera_id \in DOMAIN text_buffers'
  /\ camera_id \in DOMAIN text_buffers
       => text_buffers'[camera_id] = text_buffers[camera_id]
  /\ camera_id \in DOMAIN buffer_start_times <=> camera_id \in DOMAIN buffer_start_times'
  /\ camera_id \in DOMAIN buffer_start_times
       => buffer_start_times'[camera_id] = buffer_start_times[camera_id]

\* C12: an append, the creation of a task, a flush and every other step of
\* a triage cycle of one camera leave the buffer and the window start of
\* every other camera as they were.
C12_CamerasAreIndependent ==
  [][\A a, b \in CameraIds :
       (a # b /\ StepOfCamera(a)) => SessionUnchanged(b)]_vars

\* C12 witness: a cycle of cam1 has flushed cam1's buffer and gone on to
\* assemble its alert while cam2 holds the fragment it appended before, with
\* its older window start.
C12_Witness ==
  \E k \in DOMAIN cycles :
    /\ cycles[k].camera_id = "cam1"
    /\ cycles[k].pc = "done"
    /\ cycles[k].buffer # <<>>
    /\ "cam1" \in DOMAIN text_buffers /\ text_buffers["cam1"] = <<>>
    /\ "cam2" \in DOMAIN text_buffers /\ Len(text_buffers["cam2"]) = 1
    /\ text_buffers["cam2"][1].seq < cycles[k].buffer[1].seq
    /\ buffer_start_times["cam2"] < buffer_start_times["cam1"]

(***************************************************************************)
(* Properties of the registry.                                             *)
(***************************************************************************)
\* C16: the step in which connect_camera registers an id leaves that id with
\* an empty buffer and the connect time as window start, and begins the
\* broadcast of camera_connected for that id; and when that broadcast ends,
\* every dispatcher that was in the list when it began and is there when it
\* ends has had its send of the message, and has received it once if the
\* send succeeded.
C16_ConnectCameraStartsFresh ==
  [][\A w \in CamSockets :
       /\ (cam[w].pc = "idle" /\ cam'[w].pc # "idle")
          => LET camera_id == cam'[w].camera_id
             IN /\ camera_connections'[camera_id] = w
                /\ text_buffers'[camera_id] = <<>>
                /\ buffer_start_times'[camera_id] = now
                /\ cam'[w].bc.message = CameraConnectedMessage(camera_id)
                /\ cam'[w].bc.start = dispatcher_connections
       /\ (cam[w].bc.state # "done" /\ cam'[w].bc.state = "done")
          => \A d \in Range(cam'[w].bc.start) \cap Range(cam'[w].bc.finish) :
               /\ d \in Range(cam'[w].bc.sent) \cup Range(cam'[w].bc.disconnected)
               /\ d \in Range(cam'[w].bc.sent)
                    => SelectSeq(inbox'[d], LAMBDA m : m.bid = cam'[w].bc.bid) =
                         <<[bid |-> cam'[w].bc.bid, message |-> cam'[w].bc.message]>>]_vars

\* The camera_list messages socket d has received.
CameraLists(boxes, d) ==
  SelectSeq(boxes[d], LAMBDA m : m.message.type = "camera_list")

\* C17: the step in which connect_dispatcher registers a socket appends it
\* to the dispatcher list, sends nothing yet, and fixes its camera_list
\* message on the ids of the sessions live at that moment; the step in which
\* that send ends delivers the message to the new dispatcher (if its client
\* is there) and nothing to any other; no dispatcher ever holds more than
\* one camera_list.
C17_CameraListToNewDispatcherOnly ==
  [][\A d \in DispSockets :
       /\ (disp[d].pc = "idle" /\ disp'[d].pc # "idle")
          => /\ dispatcher_connections' = Append(dispatcher_connections, d)
             /\ disp'[d].message =
                  [type |-> "camera_list", cameras |-> DOMAIN text_buffers]
             /\ inbox' = inbox
       /\ (disp[d].pc = "sending_list" /\ disp'[d].pc # "sending_list")
          => /\ inbox'[d] = IF disp[d].alive
                              THEN Append(inbox[d], [bid |-> d, message |-> disp[d].message])
                              ELSE inbox[d]
             /\ \A e \in DispSockets \ {d} : inbox'[e] = inbox[e]
       /\ Len(CameraLists(inbox', d)) <= 1]_vars

\* C17 witness: d1 connected before the camera and d2 after it; d1 holds an
\* empty list and the later camera_connected, d2 holds the list naming cam1
\* and nothing else.
C17_Witness ==
  /\ inbox["d1"] = <<[bid |-> "d1", message |-> [type |-> "camera_list", cameras |-> {}]],
                     [bid |-> "w1", message |-> CameraConnectedMessage("cam1")]>>
  /\ inbox["d2"] = <<[bid |-> "d2",
                      message |-> [type |-> "camera_list", cameras |-> {"cam1"}]]>>
  /\ dispatcher_connections = <<"d1", "d2">>

\* disconnect_camera(camera_id) on the registry of the state: the three
\* maps it leaves.
AfterDisconnectCamera(connections, buffers, starts, camera_id) ==
  <<DisconnectCamera(connections, camera_id), DisconnectCamera(buffers, camera_id),
    DisconnectCamera(starts, camera_id)>>

\* A handler of a camera or of a dispatcher ends in the step.
HandlerEnds(handlers, h) ==
  handlers[h].pc = "receiving" /\ handlers'[h].pc \in {"closed", "error"}

\* C18: a handler that ends and calls disconnect_camera for an id with no
\* session, or disconnect_dispatcher for a socket that is not in the list,
\* changes nothing in the registry; and in every state the program reaches,
\* for every id and every socket, the call leaves the id or socket absent,
\* changes nothing when it was absent, and a second call changes nothing
\* more.
C18_DisconnectIsIdempotent ==
  [][/\ \A w \in CamSockets :
          (HandlerEnds(cam, w) /\ cam[w].camera_id \notin DOMAIN camera_connections)
          => UNCHANGED manager
     /\ \A d \in DispSockets :
          (HandlerEnds(disp, d) /\ d \notin Range(dispatcher_connections))
          => UNCHANGED manager
     /\ \A camera_id \in CameraIds :
          LET once == AfterDisconnectCamera(camera_connections', text_buffers',
                                            buffer_start_times', camera_id)
          IN /\ AfterDisconnectCamera(once[1], once[2], once[3], camera_id) = once
             /\ \A i \in 1..3 : camera_id \notin DOMAIN once[i]
             /\ camera_id \notin DOMAIN camera_connections'
                  => once[1] = camera_connections'
             /\ camera_id \notin DOMAIN text_buffers' => once[2] = text_buffers'
             /\ camera_id \notin DOMAIN buffer_start_times'
                  => once[3] = buffer_start_times'
     /\ \A d \in DispSockets :
          LET once == DisconnectDispatcher(dispatcher_connections', d)
          IN /\ DisconnectDispatcher(once, d) = once
             /\ d \notin Range(once)
             /\ d \notin Range(dispatcher_connections')
                  => once = dispatcher_connections']_vars

\* C18 witness: both calls have run on an absent key.  The second socket of
\* cam1 ended on the KeyError of a session the first socket's disconnect had
\* removed, and the dispatcher's handler ended after a broadcast had pruned
\* its socket.
C18_Witness ==
  /\ cam["w1"].pc = "closed"
  /\ cam["w2"].exception = "KeyError"
  /\ cam["w1"].camera_id = cam["w2"].camera_id
  /\ "d1" \in cam["w2"].bc.removed
  /\ disp["d1"].pc = "closed"
  /\ manager = <<EmptyDict, <<>>, EmptyDict, EmptyDict>>

(***************************************************************************)
(* Properties of the alert.                                                *)
(***************************************************************************)
IncidentTypes == {"FIRE", "POLICE", "EMS", "MULTI"}

\* C19: the alert of every cycle that broadcast one carries a classification
\* whose incident_type is FIRE, POLICE, EMS or MULTI, also when the
\* classifier's call failed and its fallback was used.
C19_AlertTypeInEnum ==
  \A k \in Alerted :
    /\ cycles[k].bc.message.data.classification.incident_type \in IncidentTypes
    /\ cycles[k].report.classification.incident_type \in IncidentTypes

\* The image references the fragments of a buffer carried, oldest first.
Snapshots(buffer) ==
  LET carrying == SelectSeq(buffer, LAMBDA f : f.snapshot # "")
  IN [i \in DOMAIN carrying |-> carrying[i].snapshot]

\* C20: the alert of a cycle whose flushed fragments carried a snapshot has
\* a snapshot reference, the one of the latest such fragment.
C20_AlertCarriesSnapshot ==
  \A k \in Alerted :
    LET refs == Snapshots(cycles[k].buffer)
    IN refs # <<>>
       => /\ "snapshot" \in DOMAIN cycles[k].report
          /\ cycles[k].report.snapshot = refs[Len(refs)]

(***************************************************************************)
(* Properties of the triage cycle as a whole.                              *)
(***************************************************************************)
\* The positions in which a process_buffer task has ended.
Ended == {"skipped", "no_emergency", "done", "crashed"}

\* C21: a cycle that flushed a non-empty buffer and has ended holds a
\* classification, and it ended either on incident_type NONE with no alert
\* handed to the broadcast, or with its one alert handed to a broadcast that
\* has ended; whatever the compressor, the classifier and the agents
\* returned or raised.
C21_EveryCycleEndsClassified ==
  \A k \in DOMAIN cycles :
    (cycles[k].buffer # <<>> /\ cycles[k].pc \in Ended)
    => /\ cycles[k].classification # EmptyDict
       /\ \/ /\ cycles[k].pc = "no_emergency"
             /\ NoEmergency(cycles[k].classification)
             /\ cycles[k].bc.state = "none"
          \/ /\ cycles[k].pc = "done"
             /\ cycles[k].bc.state = "done"
             /\ cycles[k].bc.message = AlertMessage(cycles[k].report)

\* The agent coroutines of cycle k that have not begun to run: a coroutine
\* object runs from the await of the loop's turn, not from its creation.
NotStarted(k) == Range(cycles[k].tasks)

\* C22: the agents of a cycle are in flight together: once the invocation
\* of one of them has completed, none of the cycle's other agents is still
\* waiting to be started.
C22_AgentsRunConcurrently ==
  \A k \in DOMAIN cycles : Invoked(k) # {} => NotStarted(k) = {}

\* The moves of a process_buffer task from one suspension point (or blocking
\* call) to the next.
CycleSteps ==
  { <<"created", "skipped">>, <<"created", "compressing">>, <<"created", "classify">>,
    <<"compressing", "classify">>,
    <<"classify", "no_emergency">>, <<"classify", "agents">>, <<"classify", "crashed">>,
    <<"agents", "agents">>, <<"agents", "broadcasting">>, <<"agents", "done">>,
    <<"broadcasting", "broadcasting">>, <<"broadcasting", "done">> }

\* The place of a collaborator in process_buffer: step 1, step 2, step 3.
CallRank(callee) ==
  CASE callee = "compressor" -> 1 [] callee = "classifier" -> 2 [] OTHER -> 3

\* C23: the steps of a cycle occur in a fixed order.  A task moves only along
\* flush, compressor, classifier, agents, assembly, broadcast; the
\* compressor's call has ended when the classifier is called and the
\* classifier's when an agent is called; when the alert is assembled every
\* listed agent has returned or raised and none is left to run; the
\* broadcast begins in the step that assembles the alert, carries that
\* alert, reaches a dispatcher at most once, and after it the task does
\* nothing more; on NONE the task ends in the classifier's step.
C23_StepsInFixedOrder ==
  [][\A k \in DOMAIN cycles :
       LET b == cycles[k]
           c == cycles'[k]
       IN /\ c # b => <<b.pc, c.pc>> \in CycleSteps
          /\ b.pc \in Ended => c = b
          /\ \A i, j \in DOMAIN c.calls :
               i < j => CallRank(c.calls[i].callee) <= CallRank(c.calls[j].callee)
          /\ (c.pc \notin {"created", "skipped", "compressing"} /\ HAS_COMPRESSION)
               => c.calls # <<>> /\ c.calls[1].callee = "compressor"
          /\ (\E i \in DOMAIN c.calls : CallRank(c.calls[i].callee) = 3)
               => \E i \in DOMAIN c.calls : c.calls[i].callee = "classifier"
          /\ (b.pc = "classify" /\ NoEmergency(c.classification))
               => c.pc = "no_emergency"
          /\ c.pc = "no_emergency"
               => /\ c.calls[Len(c.calls)].callee = "classifier"
                  /\ c.report = EmptyDict
                  /\ c.bc.state = "none"
          /\ (b.report = EmptyDict /\ c.report # EmptyDict)
               => /\ b.pc = "agents"
                  /\ b.tasks = <<>>
                  /\ \A a \in Listed(k) :
                       \E i \in DOMAIN b.calls :
                         /\ b.calls[i].callee = a
                         /\ b.calls[i].outcome \in {"returned", "raised"}
                  /\ c.calls = b.calls
                  /\ c.bc.state # "none"
          /\ c.bc.state # "none"
               => /\ c.report # EmptyDict
                  /\ c.bc.message = AlertMessage(c.report)
                  /\ c.pc \in {"broadcasting", "done"}
          /\ (b.bc.state # "none") => (c.report = b.report /\ c.calls = b.calls)
          /\ \A d \in DispSockets :
               Len(SelectSeq(inbox'[d], LAMBDA m : m.bid = CycleBid(k))) <= 1]_vars

\* C23 witness: a cycle has gone the whole way: the compressor, the
\* classifier and three agents were called in this order, and the alert has
\* reached the dispatcher, once.
C23_Witness ==
  \E k \in DOMAIN cycles :
    /\ cycles[k].pc = "done"
    /\ [i \in DOMAIN cycles[k].calls |-> cycles[k].calls[i].callee] =
         <<"compressor", "classifier", "fire", "ems", "police">>
    /\ SentBy(CycleBid(k), "d1") =
         <<[bid |-> CycleBid(k), message |-> AlertMessage(cycles[k].report)]>>

(***************************************************************************)
(* Properties of the session's end.                                        *)
(***************************************************************************)
\* The camera handlers that serve camera_id.
LiveHandlers(camera_id) ==
  {w \in CamSockets : cam[w].camera_id = camera_id
                      /\ cam[w].pc \in {"connecting", "receiving"}}

\* Cycle k has flushed a non-empty buffer and has not ended.
InFlight(k) ==
  /\ k \in DOMAIN cycles
  /\ cycles[k].buffer # <<>>
  /\ cycles[k].pc \notin Ended

\* C24: a disconnect does not cancel a cycle that has flushed.  The step
\* that ends a camera handler leaves every task as it is; a step of a task
\* that has flushed leaves the three maps of the registry as they are, so
\* that a session the disconnect removed is not made again and stays absent
\* while no handler serves the id; a task in flight whose camera has gone
\* still ends; and when it has ended with a classification other than NONE,
\* it has broadcast its alert, which names the camera.
C24_DisconnectDoesNotCancelCycle ==
  /\ [][/\ (\E w \in CamSockets : HandlerEnds(cam, w))
             => UNCHANGED <<cycles, running>>
        /\ \A k \in DOMAIN cycles :
             (cycles[k].buffer # <<>> /\ cycles'[k] # cycles[k])
             => UNCHANGED <<camera_connections, text_buffers, buffer_start_times>>
        /\ \A k \in DOMAIN cycles' :
             LET c == cycles'[k]
             IN /\ (/\ c.buffer # <<>>
                    /\ \A w \in CamSockets :
                         cam'[w].camera_id = c.camera_id
                         => cam'[w].pc \notin {"connecting", "receiving"})
                     => /\ c.camera_id \notin DOMAIN camera_connections'
                        /\ c.camera_id \notin DOMAIN text_buffers'
                        /\ c.camera_id \notin DOMAIN buffer_start_times'
                /\ (/\ c.buffer # <<>>
                    /\ c.pc \in Ended
                    /\ c.classification # EmptyDict
                    /\ ~NoEmergency(c.classification))
                     => /\ c.pc = "done"
                        /\ c.bc.state = "done"
                        /\ c.bc.message.type = "alert"
                        /\ c.bc.message.data.camera_id = c.camera_id]_vars
  /\ \A k \in 1..PipelineCycles :
       (InFlight(k) /\ cycles[k].camera_id \notin DOMAIN camera_connections)
         ~> (k \in DOMAIN cycles /\ cycles[k].pc \in Ended)

\* C24 witness: the camera disconnected while its cycle was suspended in the
\* compressor; the cycle has since ended, the dispatcher holds its alert for
\* that camera, and the camera has no session.
C24_Witness ==
  \E k \in DOMAIN cycles :
    /\ cycles[k].pc = "done"
    /\ cycles[k].calls[1].callee = "compressor"
    /\ LiveHandlers(cycles[k].camera_id) = {}
    /\ cam["w2"].pc = "idle"
    /\ cycles[k].camera_id \notin DOMAIN text_buffers
    /\ cycles[k].camera_id \notin DOMAIN buffer_start_times
    /\ \E i \in DOMAIN inbox["d1"] :
         /\ inbox["d1"][i].message.type = "alert"
         /\ inbox["d1"][i].message.data.camera_id = cycles[k].camera_id

\* The fragments that were in a buffer when disconnect_camera deleted it.
Discarded == UNION {Range(cam[w].discarded) : w \in CamSockets}

\* C25: the fragments a disconnect found in the buffer are discarded: no
\* cycle holds one of them, whenever it was launched, the raw_text of every
\* cycle is made of the fragments it holds, and no buffer holds one of them
\* again.
C25_DisconnectDiscardsBuffer ==
  /\ \A k \in DOMAIN cycles :
       /\ Range(cycles[k].buffer) \cap Discarded = {}
       /\ \A f \in Discarded, g \in Range(cycles[k].buffer) : f.seq # g.seq
       /\ cycles[k].raw_text = RawText(cycles[k].buffer)
  /\ \A camera_id \in DOMAIN text_buffers :
       Range(text_buffers[camera_id]) \cap Discarded = {}

\* C25 witness: the first connection of cam1 ended with a fragment in the
\* buffer; the id was registered again, and a cycle has since flushed a later
\* fragment and built raw_text from it alone.
C25_Witness ==
  /\ cam["w1"].pc = "closed"
  /\ Len(cam["w1"].discarded) = 1
  /\ cam["w2"].pc = "receiving"
  /\ \E k \in DOMAIN cycles :
       /\ Len(cycles[k].buffer) = 1
       /\ cycles[k].buffer[1].seq > cam["w1"].discarded[1].seq
       /\ cycles[k].raw_text = "smoke"

\* The number of calls cycle k has made to one collaborator.
CallCount(k, callee) ==
  Len(SelectSeq(cycles[k].calls, LAMBDA c : c.callee = callee))

\* C26: no collaborator is called again.  A cycle has called the compressor
\* at most once, the classifier at most once and each agent at most once,
\* also when a call failed and when activate_agents lists a name twice; a
\* cycle that has gone past its classifier step has called the classifier
\* exactly once.
C26_NoCollaboratorIsRetried ==
  \A k \in DOMAIN cycles :
    /\ CallCount(k, "compressor") <= 1
    /\ CallCount(k, "classifier") <= 1
    /\ \A a \in Range(AgentNames) : CallCount(k, a) <= 1
    /\ Len(cycles[k].calls) = CallCount(k, "compressor") + CallCount(k, "classifier")
                              + CallCount(k, "fire") + CallCount(k, "ems")
                              + CallCount(k, "police")
    /\ cycles[k].pc \in {"no_emergency", "agents", "broadcasting", "done", "crashed"}
         => CallCount(k, "classifier") = 1

\* C26 witness: the compressor's call failed, the classifier listed EMS
\* twice, the ems agent raised, and the cycle has ended with one call to each
\* of the three.
C26_Witness ==
  \E k \in DOMAIN cycles :
    /\ cycles[k].pc = "done"
    /\ cycles[k].agents_to_run = <<"EMS", "EMS">>
    /\ Len(cycles[k].calls) = 3
    /\ cycles[k].calls[1].callee = "compressor" /\ cycles[k].calls[1].outcome = "failed"
    /\ cycles[k].calls[2].callee = "classifier"
    /\ cycles[k].calls[3].callee = "ems" /\ cycles[k].calls[3].outcome = "raised"

\* The alerts socket d has received.
AlertsOf(d) == SelectSeq(inbox[d], LAMBDA m : m.message.type = "alert")

\* C27: every alert handed to the broadcast, and every alert a dispatcher
\* has received, has status PENDING_REVIEW and agent_reports with exactly
\* the keys fire, ems and police, whatever activate_agents held and whichever
\* agent failed.
C27_AlertHasStatusAndThreeReports ==
  /\ \A k \in Alerted :
       /\ cycles[k].bc.message.type = "alert"
       /\ cycles[k].bc.message.data.status = "PENDING_REVIEW"
       /\ DOMAIN cycles[k].bc.message.data.agent_reports = {"fire", "ems", "police"}
  /\ \A d \in DispSockets :
       \A i \in DOMAIN AlertsOf(d) :
         /\ AlertsOf(d)[i].message.data.status = "PENDING_REVIEW"
         /\ DOMAIN AlertsOf(d)[i].message.data.agent_reports = {"fire", "ems", "police"}

\* C27 witness: the classifier listed FIRE alone and the fire agent raised;
\* the dispatcher holds the alert, with the error of fire and the reports of
\* ems and police as not activated.
C27_Witness ==
  \E k \in DOMAIN cycles :
    /\ cycles[k].agents_to_run = <<"FIRE">>
    /\ \E c \in CallsTo(k, "fire") : c.outcome = "raised"
    /\ Len(AlertsOf("d1")) = 1
    /\ AlertsOf("d1")[1].bid = CycleBid(k)
    /\ "error" \in DOMAIN AlertsOf("d1")[1].message.data.agent_reports["fire"]
    /\ ~AlertsOf("d1")[1].message.data.agent_reports["ems"].activated
    /\ ~AlertsOf("d1")[1].message.data.agent_reports["police"].activated

(***************************************************************************)
(* Properties of the dispatcher handler.                                   *)
(***************************************************************************)
\* C28: the step in which a dispatcher handler handles a confirm or a reject
\* leaves the camera sessions, the buffers, the window starts and the
\* dispatcher list as they were, sends nothing to any socket, and leaves
\* every camera handler and every other dispatcher handler where it was; the
\* handler itself stays in its receive loop.
C28_DecisionChangesNothing ==
  [][\A d \in DispSockets :
       (disp'[d].received > disp[d].received /\ disp'[d].decision # "")
       => /\ UNCHANGED <<camera_connections, text_buffers, buffer_start_times,
                         dispatcher_connections>>
          /\ UNCHANGED inbox
          /\ UNCHANGED <<cam, cycles>>
          /\ \A e \in DispSockets \ {d} : disp'[e] = disp[e]
          /\ disp'[d].pc = "receiving"
          /\ d \in Range(dispatcher_connections')]_vars

\* C28 witness: one dispatcher has confirmed and the other rejected; both
\* are in the list, and the camera's session holds the fragment it had.
C28_Witness ==
  /\ disp["d1"].decision = "CONFIRMED"
  /\ disp["d2"].decision = "REJECTED"
  /\ dispatcher_connections = <<"d1", "d2">>
  /\ "cam1" \in DOMAIN text_buffers
  /\ Len(text_buffers["cam1"]) = 1
  /\ camera_connections["cam1"] = "w1"

(***************************************************************************)
(* Properties of the three maps of the registry.                           *)
(***************************************************************************)
\* C29: the three per-camera maps have the same keys: an id has a
\* connection entry exactly when it has a buffer and exactly when it has a
\* window start.
C29_MapsShareTheirKeys ==
  /\ DOMAIN camera_connections = DOMAIN text_buffers
  /\ DOMAIN text_buffers = DOMAIN buffer_start_times

\* C29 witness: cam1 has left, and a task launched for it has since found
\* nothing and ended; cam2 is connected, a cycle of cam2 has flushed, and the
\* three maps hold cam2 alone.
C29_Witness ==
  /\ DOMAIN camera_connections = {"cam2"}
  /\ DOMAIN text_buffers = {"cam2"}
  /\ DOMAIN buffer_start_times = {"cam2"}
  /\ cam["w1"].pc = "closed"
  /\ \E k \in DOMAIN cycles : cycles[k].camera_id = "cam1" /\ cycles[k].pc = "skipped"
  /\ \E k \in DOMAIN cycles : cycles[k].camera_id = "cam2" /\ cycles[k].buffer # <<>>

\* C30: when the handler of a replaced connection ends (the registry names
\* another socket for its id, and that socket's handler is running), the
\* id keeps its connection entry, its buffer and its window start.
C30_ReplacedConnectionLeavesSession ==
  [][\A w \in CamSockets :
       LET camera_id == cam[w].camera_id
       IN (/\ HandlerEnds(cam, w)
           /\ camera_id \in DOMAIN camera_connections
           /\ camera_connections[camera_id] # w
           /\ cam[camera_connections[camera_id]].pc \in {"connecting", "receiving"})
          => /\ camera_id \in DOMAIN camera_connections'
             /\ camera_id \in DOMAIN text_buffers'
             /\ camera_id \in DOMAIN buffer_start_times'
             /\ camera_connections'[camera_id] = camera_connections[camera_id]
             /\ text_buffers'[camera_id] = text_buffers[camera_id]
             /\ buffer_start_times'[camera_id] = buffer_start_times[camera_id]]_vars

(***************************************************************************)
(* Properties of the alert's agent reports.                                *)
(***************************************************************************)
\* C33: in every alert handed to the broadcast, the report of each of fire,
\* ems and police says activated exactly when the agent's upper-case name is
\* in the alert's agents_activated.
C33_ActivatedMatchesAgentsActivated ==
  \A k \in Alerted :
    LET data == cycles[k].bc.message.data
    IN \A a \in Range(AgentNames) :
         (data.agent_reports[a].activated = TRUE)
           <=> (UpperName(a) \in Range(data.agents_activated))

(***************************************************************************)
(* Properties of the dispatcher set.                                       *)
(***************************************************************************)
\* The dispatcher handlers that are running: in connect_dispatcher's send or
\* in the receive loop.
RunningHandlers == {d \in DispSockets : disp[d].pc \in {"sending_list", "receiving"}}

\* C32: every socket in the dispatcher list has a running handler; a handler
\* that ended, on the failed send of its camera_list also, has left the
\* list.  (A socket whose client has gone and whose handler has not been told
\* yet still has its running handler.)
C32_ListedDispatchersHaveHandlers ==
  Range(dispatcher_connections) \subseteq RunningHandlers

\* Socket d has been told of camera_id: in its camera_list or in a
\* camera_connected message.
Knows(d, camera_id) ==
  \E i \in DOMAIN inbox[d] :
    LET message == inbox[d][i].message
    IN \/ message.type = "camera_list" /\ camera_id \in message.cameras
       \/ message.type = "camera_connected" /\ message.camera_id = camera_id

\* C31: a dispatcher whose client is there and whose handler is in its
\* receive loop has been told of every camera whose connect_camera has
\* completed and whose handler is in its receive loop: the camera was in the
\* dispatcher's camera_list, or its camera_connected message has reached the
\* dispatcher.
C31_DispatcherLearnsOfEveryCamera ==
  \A d \in DispSockets, w \in CamSockets :
    (/\ disp[d].pc = "receiving"
     /\ disp[d].alive
     /\ cam[w].pc = "receiving")
    => Knows(d, cam[w].camera_id)

=============================================================================
